---- MODULE Spec2Model ----
(***************************************************************************)
(* The ante handler of app/v1/auth (ante.go): the transaction admission    *)
(* pipeline run before any message of a transaction is executed.           *)
(*                                                                         *)
(* The account store (AccountKeeper) and the collected fees (FeeKeeper)    *)
(* are the persistent state.  One action runs the whole handler on one     *)
(* (context, transaction, simulate) input; the caller then takes the       *)
(* result.  A panic that the handler's deferred recover re-raises is       *)
(* recorded as an invocation that never returned.                          *)
(***************************************************************************)
EXTENDS Integers, Sequences, FiniteSets, TLC

VARIABLES
    accounts,       \* AccountKeeper: address -> stored account
    collectedFees,  \* FeeKeeper: coins collected so far
    pc,             \* position of the caller: "idle", "done" (the handler has run),
                    \* "replayed" (it has run again on the transaction it accepted)
    call,           \* the arguments of the last invocation (ctx, tx, simulate)
    pre,            \* the stores as they were when that invocation started
    ret             \* what that invocation produced (newCtx, res, abort) or its panic

vars == <<accounts, collectedFees, pc, call, pre, ret>>

----------------------------------------------------------------------------
(* Bounds of the model *)

\* sequences are capped: an invocation that would raise a sequence above it is not taken
MaxSeq == 1
\* collected fees are capped likewise
MaxCollected == 2

(* Program constants, ante.go:16-24 *)
ed25519VerifyCost == 59
secp256k1VerifyCost == 100

----------------------------------------------------------------------------
(* Coins: one amount per denomination *)

Denoms == {"iris"}

Coins(n) == [d \in Denoms |-> n]

ZeroCoins == Coins(0)

\* Coins.IsZero
IsZero(coins) == \A d \in Denoms : coins[d] = 0

\* Coins.SafeSub: the difference, and whether any amount of it is negative
SafeSub(coins, amount) ==
    LET diff == [d \in Denoms |-> coins[d] - amount[d]]
    IN  [coins |-> diff, hasNeg |-> \E d \in Denoms : diff[d] < 0]

\* Coins.Plus
Plus(coins, amount) == [d \in Denoms |-> coins[d] + amount[d]]

\* Coins.IsAllGTE
IsAllGTE(coins, other) == \A d \in Denoms : coins[d] >= other[d]

----------------------------------------------------------------------------
(* Public keys.  A key is named; its scheme, its derived address and, for a *)
(* threshold key, its members are tables over the names.                   *)

NilKey == "nil"

\* the placeholder key of simulate mode, ante.go:189-194
dummySecp256k1Pubkey == "pkDummy"

PubKeys == {"pkA", "pkB", "pkC", "pkM", "pkX", dummySecp256k1Pubkey}

\* strings.ToLower(fmt.Sprintf("%T", pubkey)), reduced to the scheme it names
pubkeyTypeOf(pubkey) ==
    CASE pubkey \in {"pkA", "pkC"}                 -> "ed25519"
      [] pubkey \in {"pkB", dummySecp256k1Pubkey}  -> "secp256k1"
      [] pubkey = "pkM"                            -> "multisigthreshold"
      [] pubkey = "pkX"                            -> "sr25519"
      [] OTHER                                     -> "<nil>"

\* crypto.PubKey.Address()
AddressOf(pubkey) ==
    CASE pubkey = "pkA" -> "A"
      [] pubkey = "pkB" -> "B"
      [] pubkey = "pkC" -> "C"
      [] pubkey = "pkM" -> "M"
      [] pubkey = "pkX" -> "X"
      [] OTHER          -> "D"

\* multisig.PubKeyMultisigThreshold{K, PubKeys}
MultisigPubKeys(pubkey) == IF pubkey = "pkM" THEN <<"pkA", "pkB", "pkC">> ELSE <<>>

MultisigK(pubkey) == IF pubkey = "pkM" THEN 2 ELSE 0

----------------------------------------------------------------------------
(* Results, sdk.Result *)

NoLog == [what |-> "", got |-> 0, expected |-> 0]

Result(code) == [Code |-> code, GasWanted |-> 0, GasUsed |-> 0, Log |-> NoLog]

ResultOK == Result("OK")

IsOK(res) == res.Code = "OK"

\* sdk.ErrInvalidSequence with the values its message carries
ErrInvalidSequence(what, got, expected) ==
    [Result("InvalidSequence") EXCEPT !.Log = [what |-> what, got |-> got, expected |-> expected]]

----------------------------------------------------------------------------
(* Gas meters, sdk.GasMeter *)

NoGasMeter == [kind |-> "none", limit |-> 0, consumed |-> 0]

NewInfiniteGasMeter == [kind |-> "infinite", limit |-> 0, consumed |-> 0]

\* gasBase (1.02) and gasShift (285) rescale only a charge above gasShift; every
\* charge of the ante handler is a verification cost below it, charged as it is
NewGasMeterWithBase(gasLimit) == [kind |-> "basic", limit |-> gasLimit, consumed |-> 0]

\* GasMeter.ConsumeGas: the meter after the charge, and whether it panics ErrorOutOfGas
ConsumeGas(meter, amount) ==
    LET consumed == meter.consumed + amount
    IN  [meter |-> [meter EXCEPT !.consumed = consumed],
         outOfGas |-> meter.kind = "basic" /\ consumed > meter.limit]

\* variant: only a simulation is left unmetered
setGasMeter_MeteredAtGenesis(simulate, ctx, gasLimit) ==
    IF simulate THEN NewInfiniteGasMeter ELSE NewGasMeterWithBase(gasLimit)

\* setGasMeter, ante.go:304-311
setGasMeter(simulate, ctx, gasLimit) ==
    IF simulate \/ ctx.BlockHeight = 0
    THEN NewInfiniteGasMeter
    ELSE NewGasMeterWithBase(gasLimit)

----------------------------------------------------------------------------
(* Signatures.  Signature bytes are what they were made from: a signature   *)
(* by one key over some sign bytes, or an encoded multisig.Multisignature   *)
(* (inclusion bitmap and partial signatures).                               *)

NoSignBytes == [ChainID |-> "", AccountNumber |-> 0, Sequence |-> 0,
                Fee |-> [Gas |-> 0, Amount |-> ZeroCoins], Msgs |-> <<>>, Memo |-> ""]

\* StdSignBytes: the canonical bytes one signer signs
StdSignBytes(chainID, accnum, sequence, fee, msgs, memo) ==
    [ChainID |-> chainID, AccountNumber |-> accnum, Sequence |-> sequence,
     Fee |-> fee, Msgs |-> msgs, Memo |-> memo]

\* the signature of `signer` over `msg`
SingleSig(signer, msg) ==
    [multi |-> FALSE, signer |-> signer, msg |-> msg, BitArray |-> <<>>, Sigs |-> <<>>]

\* the encoding of multisig.Multisignature{BitArray, Sigs}
MultiSig(bits, sigs) ==
    [multi |-> TRUE, signer |-> NilKey, msg |-> NoSignBytes, BitArray |-> bits, Sigs |-> sigs]

\* the number of set bits among the first n of a bitmap
RECURSIVE NumTrueBitsBefore(_, _)
NumTrueBitsBefore(bits, n) ==
    IF n = 0 THEN 0
    ELSE NumTrueBitsBefore(bits, n - 1) + (IF bits[n] THEN 1 ELSE 0)

\* PubKeyMultisigThreshold.VerifyBytes from index i (1-based) of the bitmap on
RECURSIVE MultisigVerifyFrom(_, _, _, _, _)
MultisigVerifyFrom(pubkey, msg, sig, i, sigIndex) ==
    IF i > Len(sig.BitArray) THEN TRUE
    ELSE IF sig.BitArray[i]
         THEN /\ sig.Sigs[sigIndex].signer = MultisigPubKeys(pubkey)[i]
              /\ sig.Sigs[sigIndex].msg = msg
              /\ MultisigVerifyFrom(pubkey, msg, sig, i + 1, sigIndex + 1)
         ELSE MultisigVerifyFrom(pubkey, msg, sig, i + 1, sigIndex)

\* crypto.PubKey.VerifyBytes
VerifyBytes(pubkey, msg, sig) ==
    IF pubkeyTypeOf(pubkey) = "multisigthreshold"
    THEN /\ sig.multi
         /\ Len(MultisigPubKeys(pubkey)) = Len(sig.BitArray)
         /\ Len(sig.Sigs) >= MultisigK(pubkey)
         /\ Len(sig.Sigs) <= Len(sig.BitArray)
         /\ NumTrueBitsBefore(sig.BitArray, Len(sig.BitArray)) >= MultisigK(pubkey)
         /\ NumTrueBitsBefore(sig.BitArray, Len(sig.BitArray)) <= Len(sig.Sigs)
         /\ MultisigVerifyFrom(pubkey, msg, sig, 1, 1)
    ELSE /\ ~sig.multi
         /\ sig.signer = pubkey
         /\ sig.msg = msg

----------------------------------------------------------------------------
(* Transactions *)

ChainID == "irishub"

\* StdTx.ValidateBasic: at least one signature, one signature per signer
ValidateBasic(tx) ==
    IF Len(tx.Signatures) = 0 THEN Result("Unauthorized")
    ELSE IF Len(tx.Signatures) # Len(tx.Signers) THEN Result("Unauthorized")
    ELSE ResultOK

\* getSignBytesList, ante.go:313-321
getSignBytesList(chainID, stdTx, stdSigs) ==
    [i \in 1..Len(stdSigs) |->
        StdSignBytes(chainID, stdSigs[i].AccountNumber, stdSigs[i].Sequence,
                     stdTx.Fee, stdTx.Signers, stdTx.Memo)]

----------------------------------------------------------------------------
(* The account store *)

HasAccount(store, addr) == addr \in DOMAIN store

\* AccountKeeper.SetAccount
SetAccount(store, acc) == [store EXCEPT ![acc.Address] = acc]

\* FeeKeeper.AddCollectedFees
AddCollectedFees(fees, amount) == Plus(fees, amount)

----------------------------------------------------------------------------
(* The stages of the handler *)

\* getSignerAccs, ante.go:122-131: the accounts of the signers, or the first
\* address that has none
RECURSIVE getSignerAccsFrom(_, _, _, _)
getSignerAccsFrom(store, addrs, i, accs) ==
    IF i > Len(addrs) THEN [accs |-> accs, res |-> ResultOK]
    ELSE IF ~HasAccount(store, addrs[i])
         THEN [accs |-> <<>>, res |-> Result("UnknownAddress")]
         ELSE getSignerAccsFrom(store, addrs, i + 1, Append(accs, store[addrs[i]]))

getSignerAccs(store, addrs) == getSignerAccsFrom(store, addrs, 1, <<>>)

\* variant: only a claimed sequence below the stored one is refused
validateSigner_OnlyPast(ctx, acc, sig) ==
    IF ctx.BlockHeight = 0 /\ sig.AccountNumber # 0
    THEN ErrInvalidSequence("account number at height 0", sig.AccountNumber, 0)
    ELSE IF ctx.BlockHeight # 0 /\ acc.AccountNumber # sig.AccountNumber
    THEN ErrInvalidSequence("account number", sig.AccountNumber, acc.AccountNumber)
    ELSE IF sig.Sequence < acc.Sequence
    THEN ErrInvalidSequence("sequence", sig.Sequence, acc.Sequence)
    ELSE ResultOK

\* variant: the stored account number is required at every height
validateSigner_NoGenesisRule(ctx, acc, sig) ==
    IF acc.AccountNumber # sig.AccountNumber
    THEN ErrInvalidSequence("account number", sig.AccountNumber, acc.AccountNumber)
    ELSE IF acc.Sequence # sig.Sequence
    THEN ErrInvalidSequence("sequence", sig.Sequence, acc.Sequence)
    ELSE ResultOK

\* one round of the loop of validateAccNumAndSequence, ante.go:134-154
validateSigner(ctx, acc, sig) ==
    IF ctx.BlockHeight = 0 /\ sig.AccountNumber # 0
    THEN ErrInvalidSequence("account number at height 0", sig.AccountNumber, 0)
    ELSE IF ctx.BlockHeight # 0 /\ acc.AccountNumber # sig.AccountNumber
    THEN ErrInvalidSequence("account number", sig.AccountNumber, acc.AccountNumber)
    ELSE IF acc.Sequence # sig.Sequence
    THEN ErrInvalidSequence("sequence", sig.Sequence, acc.Sequence)
    ELSE ResultOK

\* validateAccNumAndSequence, ante.go:133-156
RECURSIVE validateFrom(_, _, _, _)
validateFrom(ctx, accs, sigs, i) ==
    IF i > Len(accs) THEN ResultOK
    ELSE LET res == validateSigner(ctx, accs[i], sigs[i])
         IN  IF ~IsOK(res) THEN res ELSE validateFrom(ctx, accs, sigs, i + 1)

validateAccNumAndSequence(ctx, accs, sigs) == validateFrom(ctx, accs, sigs, 1)

\* variant: the balance is debited without the check for a negative amount
deductFees_Unchecked(acc, fee) ==
    [acc |-> [acc EXCEPT !.Coins = SafeSub(acc.Coins, fee.Amount).coins], res |-> ResultOK]

\* deductFees, ante.go:265-282
deductFees(acc, fee) ==
    LET sub == SafeSub(acc.Coins, fee.Amount)
    IN  IF sub.hasNeg
        THEN [acc |-> acc, res |-> Result("InsufficientFunds")]
        ELSE [acc |-> [acc EXCEPT !.Coins = sub.coins], res |-> ResultOK]

\* ensureSufficientMempoolFees, ante.go:284-302
ensureSufficientMempoolFees(ctx, stdTx) ==
    IF stdTx.Fee.Gas <= 0 THEN Result("Internal")
    ELSE IF ~IsZero(ctx.MinimumFees) /\ ~IsAllGTE(stdTx.Fee.Amount, ctx.MinimumFees)
    THEN Result("InsufficientFee")
    ELSE ResultOK

\* variant: the key of the entry is adopted whatever its address
processPubKey_AnyAddress(acc, sig, simulate) ==
    IF simulate
    THEN IF acc.PubKey = NilKey
         THEN [pubKey |-> dummySecp256k1Pubkey, res |-> ResultOK]
         ELSE [pubKey |-> acc.PubKey, res |-> ResultOK]
    ELSE IF acc.PubKey = NilKey
    THEN IF sig.PubKey = NilKey
         THEN [pubKey |-> NilKey, res |-> Result("InvalidPubKey")]
         ELSE [pubKey |-> sig.PubKey, res |-> ResultOK]
    ELSE [pubKey |-> acc.PubKey, res |-> ResultOK]

\* processPubKey, ante.go:196-221
processPubKey(acc, sig, simulate) ==
    IF simulate
    THEN IF acc.PubKey = NilKey
         THEN [pubKey |-> dummySecp256k1Pubkey, res |-> ResultOK]
         ELSE [pubKey |-> acc.PubKey, res |-> ResultOK]
    ELSE IF acc.PubKey = NilKey
    THEN IF sig.PubKey = NilKey
         THEN [pubKey |-> NilKey, res |-> Result("InvalidPubKey")]
         ELSE IF AddressOf(sig.PubKey) # acc.Address
         THEN [pubKey |-> NilKey, res |-> Result("InvalidPubKey")]
         ELSE [pubKey |-> sig.PubKey, res |-> ResultOK]
    ELSE [pubKey |-> acc.PubKey, res |-> ResultOK]

\* what a gas-charging step leaves: the meter, its result, and the panic it
\* raised ("" when it returned)
Charged(meter, res, panic) == [meter |-> meter, res |-> res, panic |-> panic]

OutOfGas == "ErrorOutOfGas"
IndexOutOfRange == "runtime error: index out of range"
UnmarshalFailed == "amino: unmarshal failed"

\* meter.ConsumeGas(cost, ...) followed by return sdk.Result{}
consumeCost(meter, cost) ==
    LET c == ConsumeGas(meter, cost)
    IN  Charged(c.meter, ResultOK, IF c.outOfGas THEN OutOfGas ELSE "")

RECURSIVE consumeSignatureVerificationGas(_, _, _)
RECURSIVE consumeMultisigFrom(_, _, _, _, _)
RECURSIVE consumeMultisigNext(_, _, _, _, _)

\* variant: a member is charged whether or not its bit is set
consumeMultisigFrom_EveryMember(meter, sig, pubkey, i, sigIndex) ==
    IF i > Len(sig.BitArray) THEN Charged(meter, ResultOK, "")
    ELSE IF sigIndex > Len(sig.Sigs) \/ i > Len(MultisigPubKeys(pubkey))
    THEN Charged(meter, ResultOK, IF sig.BitArray[i] THEN IndexOutOfRange ELSE "")
    ELSE consumeMultisigNext(
             consumeSignatureVerificationGas(meter, sig.Sigs[sigIndex], MultisigPubKeys(pubkey)[i]),
             sig, pubkey, i, IF sig.BitArray[i] THEN sigIndex ELSE sigIndex - 1)

\* consumeMultisignatureVerificationGas, ante.go:249-260, from bit i (1-based) on;
\* the result of the member's charge is dropped, its panic is not
consumeMultisigFrom(meter, sig, pubkey, i, sigIndex) ==
    IF i > Len(sig.BitArray) THEN Charged(meter, ResultOK, "")
    ELSE IF ~sig.BitArray[i] THEN consumeMultisigFrom(meter, sig, pubkey, i + 1, sigIndex)
    ELSE IF sigIndex > Len(sig.Sigs) \/ i > Len(MultisigPubKeys(pubkey))
    THEN Charged(meter, ResultOK, IndexOutOfRange)
    ELSE consumeMultisigNext(
             consumeSignatureVerificationGas(meter, sig.Sigs[sigIndex], MultisigPubKeys(pubkey)[i]),
             sig, pubkey, i, sigIndex)

\* after the charge c of member i: a panic unwinds, else the loop goes on
consumeMultisigNext(c, sig, pubkey, i, sigIndex) ==
    IF c.panic # "" THEN c
    ELSE consumeMultisigFrom(c.meter, sig, pubkey, i + 1, sigIndex + 1)

consumeMultisignatureVerificationGas(meter, sig, pubkey) ==
    consumeMultisigFrom(meter, sig, pubkey, 1, 1)

\* consumeSignatureVerificationGas, ante.go:223-247
consumeSignatureVerificationGas(meter, sig, pubkey) ==
    CASE pubkeyTypeOf(pubkey) = "ed25519"   -> consumeCost(meter, ed25519VerifyCost)
      [] pubkeyTypeOf(pubkey) = "secp256k1" -> consumeCost(meter, secp256k1VerifyCost)
      [] pubkeyTypeOf(pubkey) = "multisigthreshold" ->
            IF ~sig.multi THEN Charged(meter, ResultOK, UnmarshalFailed)
            ELSE consumeMultisignatureVerificationGas(meter, sig, pubkey)
      [] OTHER -> Charged(meter, Result("InvalidPubKey"), "")

\* what processSig leaves: the account to save, the result, the meter and the
\* panic raised
Processed(acc, res, meter, panic) == [acc |-> acc, res |-> res, meter |-> meter, panic |-> panic]

\* variant: the signature bytes are verified in simulation too
processSigCharged_AlwaysVerify(acc, pubKey, gas, sig, signBytes, simulate) ==
    IF gas.panic # "" THEN Processed(acc, gas.res, gas.meter, gas.panic)
    ELSE IF ~IsOK(gas.res) THEN Processed(acc, gas.res, gas.meter, "")
    ELSE IF ~VerifyBytes(pubKey, signBytes, sig.Signature)
    THEN Processed(acc, Result("Unauthorized"), gas.meter, "")
    ELSE Processed([acc EXCEPT !.Sequence = acc.Sequence + 1], ResultOK, gas.meter, "")

\* variant: the sequence of a verified signer is left as it was
processSigCharged_NoIncrement(acc, pubKey, gas, sig, signBytes, simulate) ==
    IF gas.panic # "" THEN Processed(acc, gas.res, gas.meter, gas.panic)
    ELSE IF ~IsOK(gas.res) THEN Processed(acc, gas.res, gas.meter, "")
    ELSE IF ~simulate /\ ~VerifyBytes(pubKey, signBytes, sig.Signature)
    THEN Processed(acc, Result("Unauthorized"), gas.meter, "")
    ELSE Processed(acc, ResultOK, gas.meter, "")

\* processSig, ante.go:171-186, once the key is set on the account and the gas
\* charge `gas` is made
processSigCharged(acc, pubKey, gas, sig, signBytes, simulate) ==
    IF gas.panic # "" THEN Processed(acc, gas.res, gas.meter, gas.panic)
    ELSE IF ~IsOK(gas.res) THEN Processed(acc, gas.res, gas.meter, "")
    ELSE IF ~simulate /\ ~VerifyBytes(pubKey, signBytes, sig.Signature)
    THEN Processed(acc, Result("Unauthorized"), gas.meter, "")
    ELSE Processed([acc EXCEPT !.Sequence = acc.Sequence + 1], ResultOK, gas.meter, "")

\* processSig, ante.go:163-186, once processPubKey has answered pk
processSigKeyed(meter, acc, pk, sig, signBytes, simulate) ==
    IF ~IsOK(pk.res) THEN Processed(acc, pk.res, meter, "")
    ELSE processSigCharged([acc EXCEPT !.PubKey = pk.pubKey], pk.pubKey,
                           consumeSignatureVerificationGas(meter, sig.Signature, pk.pubKey),
                           sig, signBytes, simulate)

\* processSig, ante.go:160-187
processSig(meter, acc, sig, signBytes, simulate) ==
    processSigKeyed(meter, acc, processPubKey(acc, sig, simulate), sig, signBytes, simulate)

----------------------------------------------------------------------------
(* NewAnteHandler, ante.go:29-120 *)

NoSigners == <<>>

\* the zero sdk.Context: newCtx before line 52 assigns it
ZeroCtx == [GasMeter |-> NoGasMeter, Signers |-> NoSigners]

\* what one run leaves: the stores, the named results, and the panic in flight
Out(store, fees, newCtx, res, abort, panic) ==
    [accounts |-> store, collectedFees |-> fees, newCtx |-> newCtx,
     res |-> res, abort |-> abort, panic |-> panic]

\* what the loop over the signatures leaves
Looped(store, meter, signerAccs, res, panic) ==
    [store |-> store, meter |-> meter, signerAccs |-> signerAccs, res |-> res, panic |-> panic]

RECURSIVE sigLoop(_, _, _, _, _, _, _)
RECURSIVE sigLoopSaved(_, _, _, _, _, _, _)

\* the loop over the signatures, ante.go:103-112, from signature i (1-based) on
sigLoop(store, meter, signerAccs, stdSigs, signBytesList, simulate, i) ==
    IF i > Len(stdSigs) THEN Looped(store, meter, signerAccs, ResultOK, "")
    ELSE sigLoopSaved(store, signerAccs, stdSigs, signBytesList, simulate, i,
                      processSig(meter, signerAccs[i], stdSigs[i], signBytesList[i], simulate))

\* variant: the account of the failing signer is saved as well
sigLoopSaved_SaveFailing(store, signerAccs, stdSigs, signBytesList, simulate, i, p) ==
    IF p.panic # "" \/ ~IsOK(p.res)
    THEN Looped(SetAccount(store, p.acc), p.meter, signerAccs, p.res, p.panic)
    ELSE sigLoop(SetAccount(store, p.acc), p.meter, [signerAccs EXCEPT ![i] = p.acc],
                 stdSigs, signBytesList, simulate, i + 1)

\* ante.go:106-111, once processSig has answered p for signature i
sigLoopSaved(store, signerAccs, stdSigs, signBytesList, simulate, i, p) ==
    IF p.panic # "" \/ ~IsOK(p.res)
    THEN Looped(store, p.meter, signerAccs, p.res, p.panic)
    ELSE sigLoop(SetAccount(store, p.acc), p.meter, [signerAccs EXCEPT ![i] = p.acc],
                 stdSigs, signBytesList, simulate, i + 1)

\* variant: every panic is turned into the out-of-gas result
recovered_AnyPanic(stdTx, out) ==
    IF out.panic # ""
    THEN [out EXCEPT !.res = [Result("OutOfGas") EXCEPT
                                 !.GasWanted = stdTx.Fee.Gas,
                                 !.GasUsed = out.newCtx.GasMeter.consumed],
                     !.abort = TRUE,
                     !.panic = ""]
    ELSE out

\* the deferred recover, ante.go:58-71: an ErrorOutOfGas becomes a result, any
\* other panic is raised again
recovered(stdTx, out) ==
    IF out.panic = OutOfGas
    THEN [out EXCEPT !.res = [Result("OutOfGas") EXCEPT
                                 !.GasWanted = stdTx.Fee.Gas,
                                 !.GasUsed = out.newCtx.GasMeter.consumed],
                     !.abort = TRUE,
                     !.panic = ""]
    ELSE out

\* what the fee stage leaves: the signers' accounts in memory, the fees
\* collected, and the result
Paid(signerAccs, fees, res) == [signerAccs |-> signerAccs, fees |-> fees, res |-> res]

\* variant: the fee is collected but the debited account is dropped
feeDeducted_NoDebit(signerAccs, fees, stdTx, d) ==
    IF ~IsOK(d.res) THEN Paid(signerAccs, fees, d.res)
    ELSE Paid(signerAccs, AddCollectedFees(fees, stdTx.Fee.Amount), ResultOK)

\* ante.go:96-100, once deductFees has answered d
feeDeducted(signerAccs, fees, stdTx, d) ==
    IF ~IsOK(d.res) THEN Paid(signerAccs, fees, d.res)
    ELSE Paid([signerAccs EXCEPT ![1] = d.acc],
              AddCollectedFees(fees, stdTx.Fee.Amount), ResultOK)

\* the fee stage, ante.go:93-101
feeStage(signerAccs, fees, stdTx) ==
    IF IsZero(stdTx.Fee.Amount) THEN Paid(signerAccs, fees, ResultOK)
    ELSE feeDeducted(signerAccs, fees, stdTx, deductFees(signerAccs[1], stdTx.Fee))

\* ante.go:106-118, once the loop over the signatures has left `loop`
afterLoop(fees, newCtx, stdTx, loop) ==
    IF loop.panic # ""
    THEN Out(loop.store, fees, [newCtx EXCEPT !.GasMeter = loop.meter],
             ResultOK, FALSE, loop.panic)
    ELSE IF ~IsOK(loop.res)
    THEN Out(loop.store, fees, [newCtx EXCEPT !.GasMeter = loop.meter], loop.res, TRUE, "")
    ELSE Out(loop.store, fees,
             [newCtx EXCEPT !.GasMeter = loop.meter, !.Signers = loop.signerAccs],
             [ResultOK EXCEPT !.GasWanted = stdTx.Fee.Gas], FALSE, "")

\* ante.go:97-118, once the fee stage has left `paid`
afterFees(store, fees, newCtx, stdTx, simulate, paid) ==
    IF ~IsOK(paid.res) THEN Out(store, fees, newCtx, paid.res, TRUE, "")
    ELSE afterLoop(paid.fees, newCtx, stdTx,
                   sigLoop(store, newCtx.GasMeter, paid.signerAccs, stdTx.Signatures,
                           getSignBytesList(ChainID, stdTx, stdTx.Signatures), simulate, 1))

\* ante.go:89-118, once validateAccNumAndSequence has answered `valid`
afterValidate(store, fees, newCtx, stdTx, simulate, signerAccs, valid) ==
    IF ~IsOK(valid) THEN Out(store, fees, newCtx, valid, TRUE, "")
    ELSE afterFees(store, fees, newCtx, stdTx, simulate, feeStage(signerAccs, fees, stdTx))

\* ante.go:85-118, once getSignerAccs has answered `got`
afterSignerAccs(store, fees, ctx, newCtx, stdTx, simulate, got) ==
    IF ~IsOK(got.res) THEN Out(store, fees, newCtx, got.res, TRUE, "")
    ELSE afterValidate(store, fees, newCtx, stdTx, simulate, got.accs,
                       validateAccNumAndSequence(ctx, got.accs, stdTx.Signatures))

\* ante.go:73-118, the part the deferred recover guards
guarded(store, fees, ctx, newCtx, stdTx, simulate) ==
    IF ~IsOK(ValidateBasic(stdTx)) THEN Out(store, fees, newCtx, ValidateBasic(stdTx), TRUE, "")
    ELSE afterSignerAccs(store, fees, ctx, newCtx, stdTx, simulate,
                         getSignerAccs(store, stdTx.Signers))

\* ante.go:45-118, once the mempool check has answered `mempool`
afterMempool(store, fees, ctx, stdTx, simulate, mempool) ==
    IF ~IsOK(mempool) THEN Out(store, fees, ZeroCtx, mempool, TRUE, "")
    ELSE recovered(stdTx,
                   guarded(store, fees, ctx,
                           [ZeroCtx EXCEPT !.GasMeter = setGasMeter(simulate, ctx, stdTx.Fee.Gas)],
                           stdTx, simulate))

\* variant: the mempool check is made in simulation too
anteHandler_CheckInSimulation(store, fees, ctx, tx, simulate) ==
    IF ~tx.isStdTx
    THEN Out(store, fees, [ZeroCtx EXCEPT !.GasMeter = setGasMeter(simulate, ctx, 0)],
             Result("Internal"), TRUE, "")
    ELSE afterMempool(store, fees, ctx, tx, simulate,
                      IF ctx.IsCheckTx
                      THEN ensureSufficientMempoolFees(ctx, tx)
                      ELSE ResultOK)

\* the handler NewAnteHandler returns
anteHandler(store, fees, ctx, tx, simulate) ==
    IF ~tx.isStdTx
    THEN Out(store, fees, [ZeroCtx EXCEPT !.GasMeter = setGasMeter(simulate, ctx, 0)],
             Result("Internal"), TRUE, "")
    ELSE afterMempool(store, fees, ctx, tx, simulate,
                      IF ctx.IsCheckTx /\ ~simulate
                      THEN ensureSufficientMempoolFees(ctx, tx)
                      ELSE ResultOK)

----------------------------------------------------------------------------
(* The inputs of the model *)

Account(addr, pubKey, coins, sequence, accnum) ==
    [Address |-> addr, PubKey |-> pubKey, Coins |-> coins,
     Sequence |-> sequence, AccountNumber |-> accnum]

StdSignature(pubKey, signature, accnum, sequence) ==
    [PubKey |-> pubKey, Signature |-> signature,
     AccountNumber |-> accnum, Sequence |-> sequence]

StdFee(gas, amount) == [Gas |-> gas, Amount |-> amount]

\* a transaction that is no StdTx
OtherTx == [isStdTx |-> FALSE, Fee |-> StdFee(0, ZeroCoins), Signers |-> <<>>,
            Memo |-> "", Signatures |-> <<>>]

\* the key whose address is addr
KeyFor(addr) ==
    CASE addr = "A" -> "pkA"
      [] addr = "B" -> "pkB"
      [] addr = "M" -> "pkM"
      [] OTHER      -> "pkX"

\* a key of the same scheme with another address
WrongKeyFor(addr) == IF addr = "A" THEN "pkC" ELSE dummySecp256k1Pubkey

\* the handler tells height 0 (InitChain) from any other
Heights == {0, 1}

FeeAmounts == {Coins(0), Coins(1)}

Contexts == [BlockHeight : Heights, IsCheckTx : BOOLEAN, MinimumFees : FeeAmounts]

\* contexts of the commit regime with no fee floor
DeliverContexts == {c \in Contexts : ~c.IsCheckTx /\ IsZero(c.MinimumFees)}

\* 59 covers one ed25519 signature, 159 an ed25519 and a secp256k1 one
GasLimits == {0, 59, 159}

Fees == [Gas : GasLimits, Amount : FeeAmounts]

AccNums == {0, 1}

\* how the signature bytes of an entry were made: by the signer's key, or by
\* another key
SigKinds == {"good", "forged"}

\* what a signer's entry of a transaction is made from
Choices(addr) ==
    [pk : {NilKey, KeyFor(addr), WrongKeyFor(addr)}, an : AccNums, sq : 0..MaxSeq,
     kind : SigKinds]

\* the entries of a signer that carries its own key
OwnKeyChoices(addr) == {c \in Choices(addr) : c.pk = KeyFor(addr)}

\* the signature bytes of kind `kind` for the entry (accnum, sequence) of addr
SignatureOf(addr, kind, accnum, sequence, fee, signers) ==
    SingleSig(IF kind = "good" THEN KeyFor(addr) ELSE WrongKeyFor(addr),
              StdSignBytes(ChainID, accnum, sequence, fee, signers, ""))

EntryOf(addr, c, fee, signers) ==
    StdSignature(c.pk, SignatureOf(addr, c.kind, c.an, c.sq, fee, signers), c.an, c.sq)

StdTx(fee, signers, sigs) ==
    [isStdTx |-> TRUE, Fee |-> fee, Signers |-> signers, Memo |-> "", Signatures |-> sigs]

\* transactions of one signer
Txs1 ==
    UNION {{StdTx(fee, <<a>>, <<EntryOf(a, c, fee, <<a>>)>>) : c \in Choices(a)} :
              <<fee, a>> \in Fees \X {"A", "B"}}

\* transactions the early stages stop: no StdTx, no signature, fewer signatures
\* than signers, a signer without account
TxsEarly ==
    {OtherTx}
    \cup UNION {{StdTx(fee, <<"A">>, <<>>),
                 StdTx(fee, <<"A", "B">>, <<EntryOf("A", c, fee, <<"A", "B">>)>>),
                 StdTx(fee, <<"U">>, <<EntryOf("U", c, fee, <<"U">>)>>),
                 StdTx(fee, <<"A", "U">>, <<EntryOf("A", c, fee, <<"A", "U">>),
                                            EntryOf("U", c, fee, <<"A", "U">>)>>)} :
                   <<fee, c>> \in Fees \X {d \in OwnKeyChoices("A") : d.kind = "good" /\ d.an = 0}}

\* transactions of two signers, each carrying its own key
Txs2 ==
    UNION {{StdTx(fee, ab, <<EntryOf(ab[1], ca, fee, ab), EntryOf(ab[2], cb, fee, ab)>>) :
               <<ca, cb>> \in OwnKeyChoices(ab[1]) \X OwnKeyChoices(ab[2])} :
              <<fee, ab>> \in Fees \X {<<"A", "B">>, <<"B", "A">>}}

\* the signature of `signer` over `msg` as one entry of Multisignature.Sigs
PartialSig(signer, msg) == [signer |-> signer, msg |-> msg]

\* the inclusion bitmaps handed in: every bitmap over the three members of pkM,
\* one that is shorter and one that is longer
BitArrays ==
    {<<b1, b2, b3>> : <<b1, b2, b3>> \in BOOLEAN \X BOOLEAN \X BOOLEAN}
    \cup {<<TRUE, TRUE>>, <<TRUE, FALSE, FALSE, TRUE>>}

\* the members of pubkey whose bit is set, in bitmap order
RECURSIVE IncludedFrom(_, _, _)
IncludedFrom(pubkey, bits, i) ==
    IF i > Len(bits) THEN <<>>
    ELSE IF bits[i]
         THEN <<IF i <= Len(MultisigPubKeys(pubkey)) THEN MultisigPubKeys(pubkey)[i] ELSE "pkC">>
              \o IncludedFrom(pubkey, bits, i + 1)
         ELSE IncludedFrom(pubkey, bits, i + 1)

\* n partial signatures over msg for the bitmap: those of the included members
\* in order (of another key when forged), then as many more of pkC as n asks
PartialSigs(pubkey, bits, n, forged, msg) ==
    [j \in 1..n |->
        PartialSig(IF forged THEN dummySecp256k1Pubkey
                   ELSE IF j <= Len(IncludedFrom(pubkey, bits, 1))
                        THEN IncludedFrom(pubkey, bits, 1)[j]
                        ELSE "pkC",
                   msg)]

\* the signature bytes handed in for a multisig signer: multisignatures with as
\* many partial signatures as set bits, one fewer and one more, and the
\* signature of a single key
MultiSignaturesOf(pubkey, msg) ==
    {MultiSig(bits, PartialSigs(pubkey, bits, n, forged, msg)) :
        <<bits, n, forged>> \in
            {<<b, m, f>> \in BitArrays \X (0..5) \X BOOLEAN :
                /\ m >= NumTrueBitsBefore(b, Len(b)) - 1
                /\ m <= NumTrueBitsBefore(b, Len(b)) + 1}}
    \cup {SingleSig("pkA", msg)}

\* what the entry of the multisig signer is made from
ChoicesM == [pk : {NilKey, "pkM", "pkA"}, an : AccNums, sq : 0..MaxSeq]

\* transactions of the one signer M
TxsM ==
    UNION {{StdTx(fee, <<"M">>, <<StdSignature(c.pk, sig, c.an, c.sq)>>) :
               sig \in MultiSignaturesOf("pkM", StdSignBytes(ChainID, c.an, c.sq, fee, <<"M">>, ""))} :
              <<fee, c>> \in Fees \X ChoicesM}

Invocation(ctx, tx, simulate) == [ctx |-> ctx, tx |-> tx, simulate |-> simulate]

\* what the host hands to the handler
Inputs ==
    {Invocation(c, t, s) : <<c, t, s>> \in Contexts \X (Txs1 \cup TxsEarly) \X BOOLEAN}
    \cup {Invocation(c, t, s) : <<c, t, s>> \in DeliverContexts \X Txs2 \X BOOLEAN}

\* what the host hands to the handler when the signer is the multisig account
InputsM ==
    {Invocation(c, t, s) :
        <<c, t, s>> \in {x \in Contexts : IsZero(x.MinimumFees)} \X TxsM \X BOOLEAN}

----------------------------------------------------------------------------
(* The state machine *)

NoCall == Invocation([BlockHeight |-> 0, IsCheckTx |-> FALSE, MinimumFees |-> ZeroCoins],
                     OtherTx, FALSE)

NoRet == [newCtx |-> ZeroCtx, res |-> Result(""), abort |-> FALSE, panic |-> ""]

Stores == [accounts |-> accounts, collectedFees |-> collectedFees]

Init ==
    /\ accounts = [a \in {"A", "B"} |->
                      IF a = "A" THEN Account("A", NilKey, Coins(2), 0, 0)
                      ELSE Account("B", "pkB", Coins(1), 0, 1)]
    /\ collectedFees = ZeroCoins
    /\ pc = "idle"
    /\ call = NoCall
    /\ pre = Stores
    /\ ret = NoRet

\* what the caller gets of a run: its results, or the panic it raised again
Returned(out) ==
    IF out.panic # ""
    THEN [NoRet EXCEPT !.panic = out.panic]
    ELSE [newCtx |-> out.newCtx, res |-> out.res, abort |-> out.abort, panic |-> ""]

\* the stores and the caller (now at `at`) once a run on the input `in` has left `out`
Ran(in, out, at) ==
    /\ accounts' = out.accounts
    /\ collectedFees' = out.collectedFees
    /\ pc' = at
    /\ call' = in
    /\ pre' = Stores
    /\ ret' = Returned(out)

\* one run of the handler on the stores as they are
Run(in, at) == Ran(in, anteHandler(accounts, collectedFees, in.ctx, in.tx, in.simulate), at)

\* the stores when the only account is that of the multisig key pkM
InitM ==
    /\ accounts = [a \in {"M"} |-> Account("M", NilKey, Coins(1), 0, 1)]
    /\ collectedFees = ZeroCoins
    /\ pc = "idle"
    /\ call = NoCall
    /\ pre = Stores
    /\ ret = NoRet

\* sequences and collected fees stay within the bounds of the model
WithinBounds ==
    /\ \A a \in DOMAIN accounts' : accounts'[a].Sequence <= MaxSeq
    /\ \A d \in Denoms : collectedFees'[d] <= MaxCollected

\* the host hands a transaction to the handler
AnteHandler ==
    /\ pc = "idle"
    /\ \E in \in Inputs : Run(in, "done") /\ WithinBounds

\* the transaction the handler has just accepted is handed to it again
Replay ==
    /\ pc = "done"
    /\ ret.panic = ""
    /\ ~ret.abort
    /\ Run(call, "replayed")

\* the caller takes the result
Return ==
    /\ pc \in {"done", "replayed"}
    /\ pc' = "idle"
    /\ call' = NoCall
    /\ pre' = Stores
    /\ ret' = NoRet
    /\ UNCHANGED <<accounts, collectedFees>>

Next ==
    \/ AnteHandler
    \/ Replay
    \/ Return

Spec == Init /\ [][Next]_vars

\* the stores when A's key is stored and B's is not
InitKeyed ==
    /\ accounts = [a \in {"A", "B"} |->
                      IF a = "A" THEN Account("A", "pkA", Coins(2), 0, 0)
                      ELSE Account("B", NilKey, Coins(1), 0, 1)]
    /\ collectedFees = ZeroCoins
    /\ pc = "idle"
    /\ call = NoCall
    /\ pre = Stores
    /\ ret = NoRet

SpecKeyed == InitKeyed /\ [][Next]_vars

\* the host hands a transaction of the multisig account to the handler
AnteHandlerM ==
    /\ pc = "idle"
    /\ \E in \in InputsM : Run(in, "done") /\ WithinBounds

NextM ==
    \/ AnteHandlerM
    \/ Replay
    \/ Return

SpecMultisig == InitM /\ [][NextM]_vars

----------------------------------------------------------------------------
(* Two invocations at once.  The handler takes no lock: between its read of *)
(* the signers' accounts (getSignerAccs, ante.go:84) and its writes         *)
(* (AddCollectedFees, SetAccount, ante.go:100-111) another invocation on    *)
(* the same stores can run.  Here pc, call, pre and ret hold one entry per  *)
(* invocation, and pre[p] is what getSignerAccs answered to invocation p.   *)

Procs == {1, 2}

\* admission checks of the transactions of one signer carrying its own key
InputsC ==
    {Invocation(c, t, FALSE) :
        <<c, t>> \in {x \in Contexts : x.IsCheckTx /\ IsZero(x.MinimumFees)}
                     \X {y \in Txs1 : y.Signatures[1].PubKey = KeyFor(y.Signers[1])}}

\* getSignerAccs has answered nothing yet
NoAccs == [accs |-> <<>>, res |-> Result("")]

InitC ==
    /\ accounts = [a \in {"A", "B"} |->
                      IF a = "A" THEN Account("A", NilKey, Coins(2), 0, 0)
                      ELSE Account("B", "pkB", Coins(1), 0, 1)]
    /\ collectedFees = ZeroCoins
    /\ pc = [p \in Procs |-> "idle"]
    /\ call = [p \in Procs |-> NoCall]
    /\ pre = [p \in Procs |-> NoAccs]
    /\ ret = [p \in Procs |-> NoRet]

\* the handler returns on `in` before it has the signers' accounts: the type
\* gate, the mempool check, ValidateBasic or getSignerAccs stops it
StopsEarly(in) ==
    \/ ~in.tx.isStdTx
    \/ in.ctx.IsCheckTx /\ ~in.simulate /\ ~IsOK(ensureSufficientMempoolFees(in.ctx, in.tx))
    \/ ~IsOK(ValidateBasic(in.tx))
    \/ ~IsOK(getSignerAccs(accounts, in.tx.Signers).res)

\* ante.go:30-87: invocation p starts on `in` and runs up to and including
\* its read of the signers' accounts
Load(p, in) ==
    /\ pc[p] = "idle"
    /\ call' = [call EXCEPT ![p] = in]
    /\ IF StopsEarly(in)
       THEN /\ pc' = [pc EXCEPT ![p] = "done"]
            /\ pre' = pre
            /\ ret' = [ret EXCEPT ![p] =
                          Returned(anteHandler(accounts, collectedFees, in.ctx, in.tx, in.simulate))]
       ELSE /\ pc' = [pc EXCEPT ![p] = "loaded"]
            /\ pre' = [pre EXCEPT ![p] = getSignerAccs(accounts, in.tx.Signers)]
            /\ ret' = ret
    /\ UNCHANGED <<accounts, collectedFees>>

\* what invocation p leaves when it goes on from its read on the stores as
\* they are now
Finished(p) ==
    recovered(call[p].tx,
              afterSignerAccs(accounts, collectedFees, call[p].ctx,
                              [ZeroCtx EXCEPT !.GasMeter =
                                  setGasMeter(call[p].simulate, call[p].ctx, call[p].tx.Fee.Gas)],
                              call[p].tx, call[p].simulate, pre[p]))

\* ante.go:88-118: invocation p validates, collects the fee, processes the
\* signatures, saves the accounts it read and returns
Finish(p) ==
    /\ pc[p] = "loaded"
    /\ accounts' = Finished(p).accounts
    /\ collectedFees' = Finished(p).collectedFees
    /\ pc' = [pc EXCEPT ![p] = "done"]
    /\ ret' = [ret EXCEPT ![p] = Returned(Finished(p))]
    /\ UNCHANGED <<call, pre>>

NextC ==
    \E p \in Procs :
        \/ \E in \in InputsC : Load(p, in)
        \/ Finish(p)

SpecConcurrent == InitC /\ [][NextC]_vars

----------------------------------------------------------------------------
(* The store keys of the service keeper (package keeper, ante.go:323-434).  *)
(* A key is a sequence of bytes; a string is the sequence of its bytes.     *)

emptyByte == <<0>>

serviceDefinitionKey == <<1>>
serviceBindingKey == <<2>>
requestContextKey == <<3>>
requestKey == <<3>>
responseKey == <<4>>
requestsByExpirationIndexKey == <<5>>
intraCounterKey == <<6>>
activeRequestKey == <<7>>
returnedFeeKey == <<8>>
incomingFeeKey == <<9>>

\* the prefixes of the record kinds, in the order of their declaration
KeyPrefixes ==
    <<serviceDefinitionKey, serviceBindingKey, requestContextKey, requestKey, responseKey,
      requestsByExpirationIndexKey, intraCounterKey, activeRequestKey, returnedFeeKey,
      incomingFeeKey>>

\* getStringsKey, ante.go:423-434: the strings from the i-th on, each followed
\* by the separator
RECURSIVE JoinedFrom(_, _)
JoinedFrom(ss, i) ==
    IF i > Len(ss) THEN <<>> ELSE ss[i] \o emptyByte \o JoinedFrom(ss, i + 1)

\* getStringsKey, ante.go:423-434: the last separator is cut off
getStringsKey(ss) ==
    IF Len(JoinedFrom(ss, 1)) > 0
    THEN SubSeq(JoinedFrom(ss, 1), 1, Len(JoinedFrom(ss, 1)) - 1)
    ELSE <<>>

\* Go's conversion string(n) of an integer: the UTF-8 encoding of the code
\* point n, of U+FFFD when n is none
StringOfInt(n) ==
    IF n < 0 \/ n > 1114111 \/ (n >= 55296 /\ n <= 57343) THEN <<239, 191, 189>>
    ELSE IF n < 128 THEN <<n>>
    ELSE IF n < 2048 THEN <<192 + (n \div 64), 128 + (n % 64)>>
    ELSE IF n < 65536 THEN <<224 + (n \div 4096), 128 + ((n \div 64) % 64), 128 + (n % 64)>>
    ELSE <<240 + (n \div 262144), 128 + ((n \div 4096) % 64),
           128 + ((n \div 64) % 64), 128 + (n % 64)>>

\* AccAddress.String: the empty string for the empty address, else its
\* bech32 text (here: the text "f" followed by a letter per byte)
AddressString(addr) ==
    IF addr = <<>> THEN <<>> ELSE <<102>> \o [i \in 1..Len(addr) |-> 97 + (addr[i] % 26)]

\* GetRequestContextKey, ante.go:364-367
GetRequestContextKey(requestContextID) == requestContextKey \o requestContextID

\* GetRequestKey, ante.go:369-372
GetRequestKey(defChainId, serviceName, bindChainId, provider, height, counter) ==
    requestKey \o getStringsKey(<<defChainId, serviceName, bindChainId, AddressString(provider),
                                  StringOfInt(height), StringOfInt(counter)>>)

\* the longest request context id handed in
MaxIdLen == 7

\* byte sequences over 0 and 1 of length n, and up to MaxIdLen
BytesOfLen(n) == [1..n -> {0, 1}]
RequestContextIDs == UNION {BytesOfLen(n) : n \in 0..MaxIdLen}

\* the strings, addresses, heights and counters handed in
KeyStrings == {<<>>, <<1>>}
Providers == {<<>>, <<7>>}
KeyHeights == {0, 1, 200}
KeyCounters == {0, 1}

\* the arguments of one call of each of the two functions
KeyInputs ==
    [requestContextID : RequestContextIDs, defChainId : KeyStrings, serviceName : KeyStrings,
     bindChainId : KeyStrings, provider : Providers, height : KeyHeights,
     counter : KeyCounters]

NoKeys == [contextKey |-> <<>>, requestKey |-> <<>>]

NoKeyInput ==
    [requestContextID |-> <<>>, defChainId |-> <<>>, serviceName |-> <<>>,
     bindChainId |-> <<>>, provider |-> <<>>, height |-> 0, counter |-> 0]

InitKeys ==
    /\ accounts = <<>>
    /\ collectedFees = ZeroCoins
    /\ pc = "idle"
    /\ call = NoKeyInput
    /\ pre = <<>>
    /\ ret = NoKeys

\* the keeper builds the key of a request context and the key of a request
GetKeys ==
    /\ pc = "idle"
    /\ \E in \in KeyInputs :
          /\ call' = in
          /\ ret' = [contextKey |-> GetRequestContextKey(in.requestContextID),
                     requestKey |-> GetRequestKey(in.defChainId, in.serviceName, in.bindChainId,
                                                  in.provider, in.height, in.counter)]
    /\ pc' = "keyed"
    /\ UNCHANGED <<accounts, collectedFees, pre>>

\* the keys are used and dropped
DropKeys ==
    /\ pc = "keyed"
    /\ pc' = "idle"
    /\ call' = NoKeyInput
    /\ ret' = NoKeys
    /\ UNCHANGED <<accounts, collectedFees, pre>>

NextKeys ==
    \/ GetKeys
    \/ DropKeys

SpecKeys == InitKeys /\ [][NextKeys]_vars

----------------------------------------------------------------------------
(* What the claims speak of: the last invocation, as the caller sees it *)

CallTx == call.tx
CallSigs == call.tx.Signatures
CallSigners == call.tx.Signers
CallFee == call.tx.Fee

Done == pc \in {"done", "replayed"}
ReturnedNormally == Done /\ ret.panic = ""
Accepted == ReturnedNormally /\ ~ret.abort
Rejected == ReturnedNormally /\ ret.abort
Panicked == Done /\ ret.panic # ""

\* the signers that have a signature entry
Entries == {i \in 1..Len(CallSigners) : i <= Len(CallSigs)}

\* signer i had an account when the invocation started; that account
HadAccount(i) == CallSigners[i] \in DOMAIN pre.accounts
PreAcc(i) == pre.accounts[CallSigners[i]]

\* the mempool admission check does not stop the transaction
PassesMempool ==
    (call.ctx.IsCheckTx /\ ~call.simulate) =>
        /\ CallFee.Gas > 0
        /\ \/ \A d \in Denoms : call.ctx.MinimumFees[d] = 0
           \/ \A d \in Denoms : CallFee.Amount[d] >= call.ctx.MinimumFees[d]

\* the transaction gets to validateAccNumAndSequence
ReachesValidation ==
    /\ Done
    /\ CallTx.isStdTx
    /\ PassesMempool
    /\ Len(CallSigs) >= 1
    /\ Len(CallSigs) = Len(CallSigners)
    /\ \A i \in 1..Len(CallSigners) : HadAccount(i)

\* signer i's entry obeys the account-number rule of the height
AccNumRule(i) ==
    IF call.ctx.BlockHeight = 0
    THEN CallSigs[i].AccountNumber = 0
    ELSE HadAccount(i) /\ CallSigs[i].AccountNumber = PreAcc(i).AccountNumber

\* the key signer i is verified with
KeyUsed(i) ==
    IF PreAcc(i).PubKey # NilKey THEN PreAcc(i).PubKey
    ELSE IF call.simulate THEN dummySecp256k1Pubkey
    ELSE CallSigs[i].PubKey

\* the verification cost of a single key
CostOf(pubkey) ==
    IF pubkeyTypeOf(pubkey) = "ed25519" THEN ed25519VerifyCost
    ELSE IF pubkeyTypeOf(pubkey) = "secp256k1" THEN secp256k1VerifyCost
    ELSE 0

\* the verification cost of signers 1..n
RECURSIVE CostUpTo(_)
CostUpTo(n) == IF n = 0 THEN 0 ELSE CostUpTo(n - 1) + CostOf(KeyUsed(n))

\* the gas meter of the invocation is bounded by the declared gas
Metered == ~call.simulate /\ call.ctx.BlockHeight # 0

\* signer i's signature bytes are its key's signature of its sign bytes
ValidSignature(i) ==
    /\ ~CallSigs[i].Signature.multi
    /\ CallSigs[i].Signature.signer = KeyUsed(i)
    /\ CallSigs[i].Signature.msg =
           StdSignBytes(ChainID, CallSigs[i].AccountNumber, CallSigs[i].Sequence,
                        CallFee, CallSigners, CallTx.Memo)

\* a transaction of single-key signers with nothing to reject: every signer
\* claims its stored sequence and the account number of the height, carries or
\* has stored a key of its address, and signed validly; the first signer can
\* pay the fee; the gas limit covers the verification costs
WellFormed ==
    /\ ReachesValidation
    /\ \A i \in Entries :
          /\ AccNumRule(i)
          /\ CallSigs[i].Sequence = PreAcc(i).Sequence
          /\ KeyUsed(i) # NilKey
          /\ pubkeyTypeOf(KeyUsed(i)) \in {"ed25519", "secp256k1"}
          /\ ~call.simulate => AddressOf(KeyUsed(i)) = CallSigners[i] /\ ValidSignature(i)
    /\ \A d \in Denoms : PreAcc(1).Coins[d] >= CallFee.Amount[d]
    /\ Metered => CostUpTo(Len(CallSigners)) <= CallFee.Gas

----------------------------------------------------------------------------
(* C1: replay protection.  A transaction with nothing to reject (claimed     *)
(* sequence N = stored sequence, valid signature, sufficient balance and    *)
(* gas) is accepted and leaves the stored sequence of each signer at N+1;   *)
(* when the same transaction is handed to the handler again, on the stores  *)
(* the first run left, it is rejected with an invalid-sequence error        *)
(* (expected N+1, got N), abort = true, and the stored sequence stays N+1.  *)

C1_FirstAccepted ==
    (Done /\ WellFormed) =>
        /\ Accepted
        /\ \A i \in Entries : accounts[CallSigners[i]].Sequence = CallSigs[i].Sequence + 1

C1_SecondRejected ==
    (pc = "done" /\ pc' = "replayed") =>
        /\ call' = call
        /\ pre' = Stores
        /\ ret'.panic = ""
        /\ ret'.abort
        /\ ret'.res.Code = "InvalidSequence"
        /\ ret'.res.Log = [what |-> "sequence", got |-> CallSigs[1].Sequence,
                           expected |-> CallSigs[1].Sequence + 1]
        /\ accounts' = accounts
        /\ accounts'[CallSigners[1]].Sequence = CallSigs[1].Sequence + 1

C1_ReplayProtection == [][C1_FirstAccepted' /\ C1_SecondRejected]_vars

\* an accepted, validly signed transaction has been replayed and rejected
C1_Witness ==
    /\ pc = "replayed"
    /\ ~call.simulate
    /\ ValidSignature(1)
    /\ Rejected
    /\ ret.res.Code = "InvalidSequence"
    /\ PreAcc(1).Sequence = CallSigs[1].Sequence + 1
    /\ accounts[CallSigners[1]].Sequence = CallSigs[1].Sequence + 1

----------------------------------------------------------------------------
(* C2: a transaction with a signer whose claimed sequence differs from the   *)
(* stored sequence of its account is rejected, whether or not its signature *)
(* bytes are valid: the handler returns abort = true, with an               *)
(* invalid-sequence error whenever the transaction gets to the validation   *)
(* of its signers, and no account (sequence, balance, public key) is        *)
(* mutated.                                                                 *)

SequenceMismatch(i) == HadAccount(i) /\ CallSigs[i].Sequence # PreAcc(i).Sequence

C2_SequenceMismatchRejected ==
    (Done /\ CallTx.isStdTx /\ \E i \in Entries : SequenceMismatch(i)) =>
        /\ Rejected
        /\ accounts = pre.accounts
        /\ ReachesValidation => ret.res.Code = "InvalidSequence"

\* the second signer of a transaction claims another sequence than the stored
\* one, over a valid signature, and the transaction is rejected for it
C2_Witness ==
    /\ Done
    /\ ~call.simulate
    /\ ReachesValidation
    /\ Len(CallSigners) = 2
    /\ ~SequenceMismatch(1)
    /\ SequenceMismatch(2)
    /\ ValidSignature(2)
    /\ Rejected
    /\ ret.res.Code = "InvalidSequence"
    /\ ret.res.Log.what = "sequence"

----------------------------------------------------------------------------
(* C3: the account-number rule.  At block height 0 a signer must claim       *)
(* account number 0; at any other height it must claim the stored account   *)
(* number of its account.  A transaction with a signer that breaks the rule *)
(* of the height is never accepted: it is rejected, with an invalid-sequence*)
(* error whenever it gets to the validation of its signers; and the handler *)
(* reports an account-number mismatch only when a signer breaks the rule.   *)

C3_AccountNumberRule ==
    /\ (Done /\ CallTx.isStdTx /\ \E i \in Entries : ~AccNumRule(i)) =>
          /\ Rejected
          /\ ReachesValidation => ret.res.Code = "InvalidSequence"
    /\ (Rejected /\ ret.res.Log.what \in {"account number", "account number at height 0"}) =>
          /\ ret.res.Code = "InvalidSequence"
          /\ \E i \in Entries : ~AccNumRule(i)

\* at height 0 a signer claims its stored, nonzero account number and is rejected
C3_Witness ==
    /\ Done
    /\ ReachesValidation
    /\ call.ctx.BlockHeight = 0
    /\ CallSigs[1].AccountNumber # 0
    /\ CallSigs[1].AccountNumber = PreAcc(1).AccountNumber
    /\ Rejected
    /\ ret.res.Code = "InvalidSequence"

----------------------------------------------------------------------------
(* C4: the fee debit never produces a negative balance.  When the balance of *)
(* the fee payer is lower than the declared fee in some denomination,       *)
(* deductFees answers insufficient funds and leaves the coins of the account*)
(* as they are, and the handler rejects without mutating any account; so    *)
(* every stored balance is non-negative, always.                            *)

\* the transaction gets to the fee stage
ReachesFees ==
    /\ ReachesValidation
    /\ \A i \in Entries : AccNumRule(i) /\ ~SequenceMismatch(i)

CannotPay == \E d \in Denoms : PreAcc(1).Coins[d] < CallFee.Amount[d]

C4_NoNegativeBalance ==
    /\ \A a \in DOMAIN accounts : \A d \in Denoms : accounts[a].Coins[d] >= 0
    /\ (ReachesFees /\ CannotPay) =>
          /\ deductFees(PreAcc(1), CallFee).res.Code = "InsufficientFunds"
          /\ deductFees(PreAcc(1), CallFee).acc.Coins = PreAcc(1).Coins
          /\ Rejected
          /\ ret.res.Code = "InsufficientFunds"
          /\ accounts = pre.accounts

\* a fee payer without the coins of the fee has been turned away
C4_Witness ==
    /\ ReachesFees
    /\ CannotPay
    /\ Rejected
    /\ ret.res.Code = "InsufficientFunds"

----------------------------------------------------------------------------
(* C5: the effect of an accepted transaction with a nonzero fee F: the      *)
(* stored balance of the first signer has decreased by exactly F, the fee   *)
(* collector has received exactly F, the stored sequence of every signer has*)
(* increased by exactly 1, and the balances of the other signers and the    *)
(* accounts of all non-signers are unchanged.                               *)

SignerAddrs == {CallSigners[i] : i \in 1..Len(CallSigners)}

C5_AcceptedEffect ==
    (Accepted /\ ~IsZero(CallFee.Amount)) =>
        /\ DOMAIN accounts = DOMAIN pre.accounts
        /\ \A d \in Denoms :
              /\ accounts[CallSigners[1]].Coins[d] = PreAcc(1).Coins[d] - CallFee.Amount[d]
              /\ collectedFees[d] = pre.collectedFees[d] + CallFee.Amount[d]
        /\ \A i \in 1..Len(CallSigners) :
              /\ accounts[CallSigners[i]].Sequence = PreAcc(i).Sequence + 1
              /\ i # 1 => accounts[CallSigners[i]].Coins = PreAcc(i).Coins
        /\ \A a \in DOMAIN accounts : a \notin SignerAddrs => accounts[a] = pre.accounts[a]

\* a transaction of two signers with a fee has been accepted by a metered,
\* verifying run
C5_Witness ==
    /\ Accepted
    /\ Metered
    /\ ~IsZero(CallFee.Amount)
    /\ Len(CallSigners) = 2
    /\ accounts[CallSigners[1]].Coins # PreAcc(1).Coins

----------------------------------------------------------------------------
(* C6: whenever the handler returns abort = true, no account mutation of    *)
(* that invocation has been saved: the account store after the invocation   *)
(* equals the account store before it.                                      *)

C6_AbortSavesNothing == Rejected => accounts = pre.accounts

----------------------------------------------------------------------------
(* C8: the type gate.  Whenever the transaction is no StdTx, in every mode   *)
(* and at every block height, the handler returns an internal error with    *)
(* abort = true, and the context it returns carries a gas meter whose limit *)
(* is zero.                                                                 *)

C8_TypeGate ==
    (Done /\ ~CallTx.isStdTx) =>
        /\ Rejected
        /\ ret.res.Code = "Internal"
        /\ ret.newCtx.GasMeter.kind = "basic"
        /\ ret.newCtx.GasMeter.limit = 0

----------------------------------------------------------------------------
(* Claims about gas, checked where the signer is the multisig account *)

\* the guarded part of the handler ran: the type gate and the mempool check passed
GuardedRan == Done /\ CallTx.isStdTx /\ PassesMempool

\* what the guarded part of the handler left before the deferred recover acted
RawOut ==
    guarded(pre.accounts, pre.collectedFees, call.ctx,
            [ZeroCtx EXCEPT !.GasMeter = setGasMeter(call.simulate, call.ctx, CallFee.Gas)],
            CallTx, call.simulate)

\* the meter the handler returned has been charged beyond its limit
Exhausted ==
    /\ ret.newCtx.GasMeter.kind = "basic"
    /\ ret.newCtx.GasMeter.consumed > ret.newCtx.GasMeter.limit

(* C7: out-of-gas containment.  When a charge made after the meter is       *)
(* installed runs the meter out, the handler returns normally with an       *)
(* out-of-gas error, abort = true, gas_wanted = the declared gas limit and  *)
(* gas_used = the gas consumed on the meter, and an out-of-gas result is    *)
(* only ever returned for a meter charged beyond its limit; any other       *)
(* unwind raised in the same region reaches the caller unchanged.           *)
C7_OutOfGasContained ==
    GuardedRan =>
        /\ RawOut.panic = OutOfGas =>
              /\ Rejected
              /\ ret.res.Code = "OutOfGas"
              /\ ret.res.GasWanted = CallFee.Gas
              /\ ret.res.GasUsed = ret.newCtx.GasMeter.consumed
              /\ ret.newCtx.GasMeter = RawOut.newCtx.GasMeter
              /\ ret.newCtx.GasMeter.limit = CallFee.Gas
              /\ Exhausted
        /\ (ReturnedNormally /\ ret.res.Code = "OutOfGas") => RawOut.panic = OutOfGas
        /\ (ReturnedNormally /\ Exhausted) => ret.res.Code = "OutOfGas" /\ ret.abort
        /\ RawOut.panic \notin {"", OutOfGas} => Panicked /\ ret.panic = RawOut.panic

\* member A is charged within the limit 59, member B runs the meter out at 159
C7_Witness ==
    /\ GuardedRan
    /\ Rejected
    /\ ret.res.Code = "OutOfGas"
    /\ ret.res.GasWanted = 59
    /\ ret.res.GasUsed = 159
    /\ CallSigs[1].Signature.multi
    /\ CallSigs[1].Signature.BitArray = <<TRUE, TRUE, FALSE>>

\* the handler gets to the gas charge of signer 1, whose key is the multisig
\* key and whose signature bytes are a multisignature
MultisigCharged ==
    /\ ReachesFees
    /\ ~CannotPay
    /\ Len(CallSigners) = 1
    /\ pubkeyTypeOf(KeyUsed(1)) = "multisigthreshold"
    /\ PreAcc(1).PubKey = NilKey => AddressOf(KeyUsed(1)) = CallSigners[1]
    /\ CallSigs[1].Signature.multi

CallBits == CallSigs[1].Signature.BitArray
CallPartials == CallSigs[1].Signature.Sigs
CallMembers == MultisigPubKeys(KeyUsed(1))

\* the multisignature is structurally sound: one partial signature per set
\* bit, and no bit beyond the members of the key
Matching ==
    /\ Len(CallPartials) = NumTrueBitsBefore(CallBits, Len(CallBits))
    /\ Len(CallBits) <= Len(CallMembers)

\* the sum of the costs of the members whose bit is set, from bit i on
RECURSIVE SumIncluded(_)
SumIncluded(i) ==
    IF i > Len(CallBits) THEN 0
    ELSE (IF CallBits[i] THEN CostOf(CallMembers[i]) ELSE 0) + SumIncluded(i + 1)

\* the sum of the costs of the set-bit members among bits 1..n
RECURSIVE SumIncludedUpTo(_)
SumIncludedUpTo(n) ==
    IF n = 0 THEN 0
    ELSE SumIncludedUpTo(n - 1) + (IF CallBits[n] THEN CostOf(CallMembers[n]) ELSE 0)

(* C9: multisig gas.  For a multisig signer whose multisignature is         *)
(* structurally sound, the gas consumed is the sum of the costs (59 for     *)
(* ed25519, 100 for secp256k1) of exactly the members whose bit is set,     *)
(* nothing for a member whose bit is clear; the members are charged in      *)
(* bitmap order, so a meter that runs out holds the sum up to the first     *)
(* set-bit member at which the sum exceeds the limit.                       *)
C9_MultisigGas ==
    (MultisigCharged /\ Matching) =>
        /\ ReturnedNormally
        /\ IF Metered /\ SumIncluded(1) > CallFee.Gas
           THEN /\ ret.res.Code = "OutOfGas"
                /\ \E n \in 1..Len(CallBits) :
                      /\ CallBits[n]
                      /\ SumIncludedUpTo(n) > CallFee.Gas
                      /\ SumIncludedUpTo(n - 1) <= CallFee.Gas
                      /\ ret.newCtx.GasMeter.consumed = SumIncludedUpTo(n)
           ELSE /\ ret.res.Code # "OutOfGas"
                /\ ret.newCtx.GasMeter.consumed = SumIncluded(1)

\* bitmap 101 over (ed25519, secp256k1, ed25519) is charged 59 + 59
C9_Witness ==
    /\ MultisigCharged
    /\ Matching
    /\ CallBits = <<TRUE, FALSE, TRUE>>
    /\ Accepted
    /\ ret.newCtx.GasMeter.consumed = 118

(* C10: multisig structural mismatch.  When the number of partial           *)
(* signatures of a multisignature differs from the number of set bits of    *)
(* its bitmap, the signer is rejected: the handler returns abort = true,    *)
(* it neither accepts the transaction nor unwinds to its caller.            *)
C10_MismatchRejected ==
    (MultisigCharged /\ Len(CallPartials) # NumTrueBitsBefore(CallBits, Len(CallBits))) =>
        Rejected

----------------------------------------------------------------------------
(* Claims about simulation, checked where A's key is stored and B's is not *)

\* the handler gets to the loop over the signatures
ReachesSignatures == ReachesFees /\ ~CannotPay

\* what simulation charges for signer i: the cost of the stored key, or of the
\* placeholder secp256k1 key when no key is stored
SimulatedCost(i) ==
    IF PreAcc(i).PubKey = NilKey THEN secp256k1VerifyCost ELSE CostOf(PreAcc(i).PubKey)

RECURSIVE SimulatedCostUpTo(_)
SimulatedCostUpTo(n) ==
    IF n = 0 THEN 0 ELSE SimulatedCostUpTo(n - 1) + SimulatedCost(n)

(* C11: simulate mode.  When simulate is true no signature bytes are         *)
(* verified: a transaction whose signers all have accounts and entries is    *)
(* never answered unauthorized, and once it gets to the loop over the        *)
(* signatures it is accepted whatever its signature bytes are; the gas       *)
(* consumed is, per signer, the secp256k1 cost 100 (the highest single-key   *)
(* cost) when the account has no stored key, and the cost of the stored key  *)
(* when it has one.                                                          *)
C11_SimulateMode ==
    (ReachesValidation /\ call.simulate) =>
        /\ ReturnedNormally
        /\ ret.res.Code # "Unauthorized"
        /\ secp256k1VerifyCost >= ed25519VerifyCost
        /\ ReachesSignatures =>
              /\ Accepted
              /\ ret.newCtx.GasMeter.consumed = SimulatedCostUpTo(Len(CallSigners))

\* A (stored ed25519 key) and B (no stored key) with signatures of other keys
\* are accepted in simulation for 59 + 100
C11_Witness ==
    /\ Done
    /\ call.simulate
    /\ ReachesSignatures
    /\ CallSigners = <<"A", "B">>
    /\ PreAcc(1).PubKey = "pkA"
    /\ PreAcc(2).PubKey = NilKey
    /\ \E i \in 1..2 : ~ValidSignature(i)
    /\ Accepted
    /\ ret.newCtx.GasMeter.consumed = 159

----------------------------------------------------------------------------
(* Claims about the mempool admission check *)

\* the invocation is an admission check and no simulation
AdmissionCheck == call.ctx.IsCheckTx /\ ~call.simulate

\* the declared gas is 0, or a nonzero fee floor is not met in some denomination
BelowFloor ==
    \/ CallFee.Gas = 0
    \/ /\ \E d \in Denoms : call.ctx.MinimumFees[d] # 0
       /\ \E d \in Denoms : CallFee.Amount[d] < call.ctx.MinimumFees[d]

\* the invocation left what the handler leaves for the context ctx on the same
\* stores, transaction and mode
SameOutcomeIn(ctx) ==
    LET out == anteHandler(pre.accounts, pre.collectedFees, ctx, CallTx, call.simulate)
    IN  /\ accounts = out.accounts
        /\ collectedFees = out.collectedFees
        /\ ret = Returned(out)

(* C12: mempool admission check.  It is applied exactly when the invocation *)
(* is an admission check (CheckTx) and no simulation: then a transaction    *)
(* with declared gas 0, or with a fee below a nonzero floor in some         *)
(* denomination, is rejected with no account changed and no fee collected,  *)
(* and any other transaction fares as it does in commit mode.  In commit    *)
(* mode and in simulate mode the outcome (result, abort, stores) is the     *)
(* same under every fee floor.                                              *)
C12_MempoolCheck ==
    (Done /\ CallTx.isStdTx) =>
        /\ (AdmissionCheck /\ BelowFloor) =>
              /\ Rejected
              /\ ret.res.Code = (IF CallFee.Gas = 0 THEN "Internal" ELSE "InsufficientFee")
              /\ accounts = pre.accounts
              /\ collectedFees = pre.collectedFees
        /\ (AdmissionCheck /\ ~BelowFloor) =>
              SameOutcomeIn([call.ctx EXCEPT !.IsCheckTx = FALSE])
        /\ ~AdmissionCheck =>
              /\ ret.res.Code # "InsufficientFee"
              /\ \A floor \in FeeAmounts :
                    SameOutcomeIn([call.ctx EXCEPT !.MinimumFees = floor])

\* an otherwise acceptable transaction with gas is stopped by the floor
C12_Witness ==
    /\ Done
    /\ CallTx.isStdTx
    /\ AdmissionCheck
    /\ CallFee.Gas > 0
    /\ BelowFloor
    /\ Rejected
    /\ ret.res.Code = "InsufficientFee"
    /\ accounts = pre.accounts
    /\ Len(CallSigners) = 1
    /\ Len(CallSigs) = 1
    /\ HadAccount(1)
    /\ CallSigs[1].Sequence = PreAcc(1).Sequence
    /\ ValidSignature(1)

----------------------------------------------------------------------------
(* Claims about the stored public key *)

\* signer i has no stored key, and its entry carries no key or a key of
\* another address
BadKey(i) ==
    /\ PreAcc(i).PubKey = NilKey
    /\ \/ CallSigs[i].PubKey = NilKey
       \/ AddressOf(CallSigs[i].PubKey) # CallSigners[i]

\* when not simulating, a key is stored only for a signer that had none, and
\* it is the key of the signer's entry, whose address is the signer's; a first
\* signer with a bad key is refused with the invalid-public-key error, which
\* is answered for no other reason
LearnedFromEntry ==
    (Done /\ CallTx.isStdTx /\ ~call.simulate) =>
        /\ \A a \in DOMAIN accounts :
              accounts[a].PubKey # pre.accounts[a].PubKey =>
                  \E i \in Entries :
                      /\ CallSigners[i] = a
                      /\ pre.accounts[a].PubKey = NilKey
                      /\ accounts[a].PubKey = CallSigs[i].PubKey
                      /\ AddressOf(accounts[a].PubKey) = a
        /\ (ReachesSignatures /\ BadKey(1)) =>
              /\ Rejected
              /\ ret.res.Code = "InvalidPubKey"
              /\ accounts = pre.accounts
        /\ (ReturnedNormally /\ ret.res.Code = "InvalidPubKey") =>
              /\ ReachesSignatures
              /\ \E i \in Entries : BadKey(i)

\* a step replaces no stored key
KeyKept ==
    \A a \in DOMAIN accounts :
        accounts[a].PubKey # NilKey => accounts'[a].PubKey = accounts[a].PubKey

(* C13: public-key learning.  When not simulating, an account without       *)
(* stored key adopts the key of its signature entry only if the key's       *)
(* address is the account's (a missing key and a key of another address are *)
(* refused with the invalid-public-key error); and no step of any sequence  *)
(* of invocations replaces a stored key by another one.                     *)
C13_KeyLearning == [][KeyKept /\ LearnedFromEntry']_vars

\* A, without stored key, is accepted and now has the key of its entry
C13_Witness ==
    /\ Accepted
    /\ ~call.simulate
    /\ CallSigners = <<"A">>
    /\ pre.accounts["A"].PubKey = NilKey
    /\ CallSigs[1].PubKey = "pkA"
    /\ accounts["A"].PubKey = "pkA"

----------------------------------------------------------------------------
(* Claims about the gas meter of the returned context *)

\* the invocation is not metered: a simulation, or at block height 0
Unmetered == call.simulate \/ call.ctx.BlockHeight = 0

(* C14: gas meter construction.  For a StdTx that gets to the installation  *)
(* of the meter, the meter is infinite if and only if the invocation is a   *)
(* simulation or the block height is 0, and otherwise it is bounded by the  *)
(* declared gas limit; no invocation in simulate mode or at block height 0  *)
(* ends out of gas.                                                         *)
C14_MeterConstruction ==
    /\ (GuardedRan /\ ReturnedNormally) =>
          /\ ret.newCtx.GasMeter.kind \in {"infinite", "basic"}
          /\ ret.newCtx.GasMeter.kind = "infinite" <=> Unmetered
          /\ ret.newCtx.GasMeter.kind = "basic" => ret.newCtx.GasMeter.limit = CallFee.Gas
    /\ (Done /\ Unmetered) =>
          /\ ret.res.Code # "OutOfGas"
          /\ ret.panic # OutOfGas

\* at block height 0 a transaction declaring gas 0 is charged 100 and accepted
C14_Witness ==
    /\ GuardedRan
    /\ ~call.simulate
    /\ call.ctx.BlockHeight = 0
    /\ CallFee.Gas = 0
    /\ Accepted
    /\ ret.newCtx.GasMeter.kind = "infinite"
    /\ ret.newCtx.GasMeter.consumed = 100

----------------------------------------------------------------------------
(* Claims about the loop over the signatures *)

\* the step of single-key signer i fails: the key cannot be resolved or is of
\* no known type, the charge for it runs the meter out, or the signature
\* bytes are not the key's (not looked at in simulation)
StepFails(i) ==
    \/ ~call.simulate /\ BadKey(i)
    \/ pubkeyTypeOf(KeyUsed(i)) \notin {"ed25519", "secp256k1"}
    \/ Metered /\ CostUpTo(i) > CallFee.Gas
    \/ ~call.simulate /\ ~ValidSignature(i)

\* the first signer whose step fails
FirstFailing ==
    CHOOSE k \in 1..Len(CallSigners) : StepFails(k) /\ \A j \in 1..(k - 1) : ~StepFails(j)

\* the signers are pairwise distinct
DistinctSigners == \A i, j \in 1..Len(CallSigners) : CallSigners[i] = CallSigners[j] => i = j

\* signer i has been written back: sequence one higher, the key used stored,
\* the fee debited if it is the first signer
WrittenBack(i) ==
    accounts[CallSigners[i]] =
        [PreAcc(i) EXCEPT !.Sequence = PreAcc(i).Sequence + 1,
                          !.PubKey = KeyUsed(i),
                          !.Coins = IF i = 1 THEN SafeSub(PreAcc(i).Coins, CallFee.Amount).coins
                                    ELSE PreAcc(i).Coins]

(* C15: signature-loop ordering.  Signers are processed in signer order:    *)
(* when the step of a signer (key resolution, gas charge, signature         *)
(* verification) first fails at index k, the handler rejects, every signer  *)
(* before k has been written back with its sequence incremented by 1, and   *)
(* signer k and every later signer are stored as they were; when no step    *)
(* fails every signer has been written back.                                *)
C15_LoopOrdering ==
    (ReachesSignatures /\ DistinctSigners) =>
        IF \E k \in 1..Len(CallSigners) : StepFails(k)
        THEN /\ Rejected
             /\ \A i \in 1..(FirstFailing - 1) : WrittenBack(i)
             /\ \A i \in FirstFailing..Len(CallSigners) : accounts[CallSigners[i]] = PreAcc(i)
        ELSE /\ Accepted
             /\ \A i \in 1..Len(CallSigners) : WrittenBack(i)

\* B's step fails after A's passed: A is stored with sequence 1, B as it was
C15_Witness ==
    /\ ReachesSignatures
    /\ CallSigners = <<"A", "B">>
    /\ ~StepFails(1)
    /\ StepFails(2)
    /\ Rejected
    /\ accounts["A"].Sequence = pre.accounts["A"].Sequence + 1
    /\ accounts["B"] = pre.accounts["B"]

(* C16: every invocation that returns normally, accepted or rejected at any *)
(* stage, returns a context that carries a gas meter installed by this      *)
(* invocation: infinite, or bounded by the declared gas limit, or of limit  *)
(* zero for the type gate.                                                  *)
C16_ReturnsMeter ==
    ReturnedNormally =>
        \/ ret.newCtx.GasMeter.kind = "infinite"
        \/ /\ ret.newCtx.GasMeter.kind = "basic"
           /\ ret.newCtx.GasMeter.limit = (IF CallTx.isStdTx THEN CallFee.Gas ELSE 0)

----------------------------------------------------------------------------
(* Claims about the stored sequence over several invocations *)

\* the invocation just made ran in the commit regime
CommitRun == Done /\ ~call.ctx.IsCheckTx /\ ~call.simulate

\* no stored sequence is lowered by the step
NeverDecreases ==
    \A a \in DOMAIN accounts : accounts'[a].Sequence >= accounts[a].Sequence

\* an accepting step took the stored sequence of each signer as the claimed
\* one and leaves it one higher
AcceptedRaises ==
    (Accepted' /\ DistinctSigners') =>
        \A i \in 1..Len(CallSigners') :
            /\ CallSigs'[i].Sequence = accounts[CallSigners'[i]].Sequence
            /\ accounts'[CallSigners'[i]].Sequence = accounts[CallSigners'[i]].Sequence + 1

\* a stored sequence moves only when a transaction of the account is accepted,
\* so that the accepted transactions of an account claim N, N+1, N+2, ...
OnlyAcceptedRaises ==
    \A a \in DOMAIN accounts :
        accounts'[a].Sequence # accounts[a].Sequence => Accepted' /\ a \in SignerAddrs'

(* C17: sequence monotonicity in the commit regime.  Over any sequence of   *)
(* invocations on one account store no stored sequence decreases, each      *)
(* accepted transaction raises the stored sequence of each signer by        *)
(* exactly 1 from the claimed one, and the stored sequence of an account    *)
(* moves in no other step, so the accepted transactions of an account carry *)
(* consecutive claimed sequences without gap or reuse.                      *)
C17_SequenceMonotone ==
    [][NeverDecreases /\ (CommitRun' => AcceptedRaises /\ OnlyAcceptedRaises)]_vars

----------------------------------------------------------------------------
(* Claims about invocations that run at once *)

\* invocation p has returned normally and accepted its transaction
AcceptedC(p) == pc[p] = "done" /\ ret[p].panic = "" /\ ~ret[p].abort

\* the two invocations are admission checks of transactions of the same
\* sender that claim the same sequence
SameSenderSameSequence ==
    /\ \A p \in Procs : pc[p] = "done" /\ call[p].ctx.IsCheckTx /\ ~call[p].simulate
    /\ call[1].tx.Signers = call[2].tx.Signers
    /\ call[1].tx.Signatures[1].Sequence = call[2].tx.Signatures[1].Sequence

(* C18: same-sender admission checks are serialized.  Two admission checks  *)
(* of transactions of the same sender that claim the same sequence, run at  *)
(* once on the same stores with their reads and writes of the account       *)
(* interleaved, are never both accepted.                                    *)
C18_SameSenderSerialized ==
    SameSenderSameSequence => ~(AcceptedC(1) /\ AcceptedC(2))

----------------------------------------------------------------------------
(* Claims about the fees *)

\* the sum of the balances in denomination d of the accounts `addrs` of a store
RECURSIVE BalanceOf(_, _, _)
BalanceOf(store, addrs, d) ==
    IF addrs = {} THEN 0
    ELSE LET a == CHOOSE x \in addrs : TRUE
         IN  store[a].Coins[d] + BalanceOf(store, addrs \ {a}, d)

(* C19: fee conservation.  Every invocation adds to the collected fees      *)
(* exactly the amount by which the stored balances have decreased, so the   *)
(* two totals agree after any sequence of invocations; an invocation that   *)
(* is rejected, also after the fee-deduction stage, adds nothing to the     *)
(* collected fees.                                                          *)
C19_FeeConservation ==
    Done =>
        \A d \in Denoms :
            /\ collectedFees[d] - pre.collectedFees[d] =
                   BalanceOf(pre.accounts, DOMAIN pre.accounts, d)
                   - BalanceOf(accounts, DOMAIN accounts, d)
            /\ Rejected => collectedFees[d] = pre.collectedFees[d]

----------------------------------------------------------------------------
(* Claims about the store keys *)

(* C20: the key spaces of different record kinds are disjoint.  No key      *)
(* built by GetRequestContextKey equals a key built by GetRequestKey, for   *)
(* all arguments, the one-byte prefixes of the record kinds being pairwise  *)
(* distinct.                                                                *)
C20_KeySpacesDisjoint == pc = "keyed" => ret.contextKey # ret.requestKey

====
